---- MODULE Spec2Model ----
(***************************************************************************)
(* State-machine model of the site-scoring and financial-modelling core    *)
(* of carbonsiteAI: SiteScreeningEngine (backend/site_screening.py),       *)
(* FinancialModel (backend/financial_modeling.py) and CarbonSiteAIEngine   *)
(* (backend/main_engine.py).                                               *)
(*                                                                         *)
(* Units.  The Python code computes in floating point.  The model keeps    *)
(* every quantity an exact integer by scaling:                             *)
(*   - a sub-score is held in 1/40 of a point (Pts(100) is 100 points);    *)
(*     with integer site attributes every ramp of the source is then an    *)
(*     exact integer;                                                      *)
(*   - a weight is held in percent (0.25 is 25);                           *)
(*   - total_score is held in 1/4000 of a point (sub-score * weight).      *)
(* Floating-point rounding itself is not modelled.                         *)
(***************************************************************************)
EXTENDS Integers, Sequences, FiniteSets, TLC

VARIABLES
    sites,             \* SiteScreeningEngine.sites: list of SiteMetrics
    weights,           \* SiteScreeningEngine.weights: dimension -> percent
    nAdded,            \* number of SiteMetrics objects created so far (object identity)
    added,             \* history: the field mappings add_site accepted, in call order
    financial_models,  \* CarbonSiteAIEngine.financial_models: site_id -> FinancialModel
    analysis_results,  \* CarbonSiteAIEngine.analysis_results
    fm,                \* a FinancialModel object driven directly by a caller
    probe,             \* a SiteMetrics value handed to one sub-score function
    op,                \* the last call made
    prev,              \* history: the call made before it
    arg,               \* the argument of the last call that the claims refer to
    ret,               \* what the last call returned ("None" when it returned nothing)
    raised             \* the exception the last call ended with ("none" when it returned)

vars == <<sites, weights, nAdded, added, financial_models, analysis_results, fm, probe,
          op, prev, arg, ret, raised>>

engineVars == <<sites, weights, nAdded, added, financial_models, analysis_results>>

\* Bound on the number of sites one engine holds.
MaxSites == 3

Min(a, b) == IF a <= b THEN a ELSE b
Max(a, b) == IF a >= b THEN a ELSE b

\* n points in the model's sub-score unit (1/40 point).
Pts(n) == 40 * n

(***************************************************************************)
(* SiteMetrics                                                             *)
(***************************************************************************)
\* The fields of the SiteMetrics dataclass, all required (none has a default).
SiteFields ==
    {"site_id", "name", "country", "region", "latitude", "longitude",
     "co2_volume_tpy", "co2_concentration", "co2_impurities", "co2_availability_score",
     "power_price_eur_mwh", "power_availability", "renewable_energy_share", "energy_score",
     "emissions_intensity", "eu_ets_price", "cbam_applicable", "policy_score",
     "industrial_zone", "utility_availability", "transport_access", "infrastructure_score",
     "labor_costs", "land_costs", "tax_incentives", "financial_score",
     "total_score", "ranking"}

\* The five scoring dimensions, keys of the weight mapping.
Dimensions == {"co2_availability", "energy", "policy", "infrastructure", "financial"}

\* SiteScreeningEngine.__init__: the default weights.
DefaultWeights ==
    [co2_availability |-> 25, energy |-> 20, policy |-> 20,
     infrastructure |-> 15, financial |-> 20]

\* One complete field mapping as a caller passes it to add_site: the raw
\* attributes, with the derived fields (scores, total, ranking) preset to 0 as in
\* the sample data of the repository.
SiteData(id, country, vol, conc, price, avail, renew, intensity, ets, cbam, zone, utility, transport, labor, land, tax) ==
    [site_id |-> id, name |-> id, country |-> country, region |-> "region",
     latitude |-> 0, longitude |-> 0,
     co2_volume_tpy |-> vol, co2_concentration |-> conc, co2_impurities |-> "Low",
     co2_availability_score |-> 0,
     power_price_eur_mwh |-> price, power_availability |-> avail,
     renewable_energy_share |-> renew, energy_score |-> 0,
     emissions_intensity |-> intensity, eu_ets_price |-> ets, cbam_applicable |-> cbam,
     policy_score |-> 0,
     industrial_zone |-> zone, utility_availability |-> utility,
     transport_access |-> transport, infrastructure_score |-> 0,
     labor_costs |-> labor, land_costs |-> land, tax_incentives |-> tax,
     financial_score |-> 0,
     total_score |-> 0, ranking |-> 0]

\* The candidate sites the callers of the model choose from.  A site may be added
\* more than once (add_site does not look at site_id); two copies tie under every
\* weight vector.  S2 beats S1 under the default weights and ties with it under
\* the weights of the example run of main_engine.py.  S3 has attributes outside
\* their expected ranges and categories outside the lookup tables.
SiteS1 ==
    SiteData("S1", "DE", 1000, 100, 130, 100, 0, 200, 80, TRUE,
             "Chemical", "Excellent", "Excellent", 35, 300, 20)
SiteS2 ==
    SiteData("S2", "NL", 1000, 100, 150, 100, 0, 200, 80, TRUE,
             "Chemical", "Excellent", "Excellent", 25, 100, 0)
SiteS3 ==
    SiteData("S3", "CH", 400, 10, 200, 50, 10, 900, 30, FALSE,
             "Harbor", "Poor", "None", 60, 600, 0)

SitePool == {SiteS1, SiteS2, SiteS3}

\* A mapping with one required field left out, and one with a field SiteMetrics
\* does not have.
WithoutField(d, f) == [g \in (DOMAIN d) \ {f} |-> d[g]]
WithField(d, f, v) == [g \in (DOMAIN d) \cup {f} |-> IF g = f THEN v ELSE d[g]]

MalformedSiteData == {WithoutField(SiteS1, "country"), WithField(SiteS1, "capacity", 1)}

\* SiteMetrics(**site_data): the dataclass constructor accepts the mapping iff its
\* keys are exactly the fields; a missing or an unexpected keyword is a TypeError.
\* It does not check the types of the values.
SiteMetricsAccepts(site_data) == DOMAIN site_data = SiteFields

\* The SiteMetrics object built from an accepted mapping; oid is the object's
\* identity (its creation number).
SiteMetrics(site_data, n) == WithField(site_data, "oid", n)

\* Variants of the code's operators with one known fault each, used to show
\* that the properties below detect such a fault.
\* calculate_co2_score without the final clamp of line 96.
calculate_co2_score_unclamped(site) ==
    Min(Pts(50), site.co2_volume_tpy * 2) + (site.co2_concentration - 20) * 15 + Pts(20)

(***************************************************************************)
(* The five sub-scores (in 1/40 point)                                     *)
(***************************************************************************)
calculate_co2_score(site) ==
    LET volume_score == Min(Pts(50), site.co2_volume_tpy * 2)
        concentration_score == (site.co2_concentration - 20) * 15
        impurity_score == Pts(20)
        total_score == volume_score + concentration_score + impurity_score
    IN  Min(Pts(100), Max(0, total_score))

\* calculate_energy_score with the price component linear everywhere, without
\* the branches of lines 103-106.
calculate_energy_score_linear_price(site) ==
    Min(Pts(100),
        Max(0, Pts(50) - (site.power_price_eur_mwh - 50) * 20
               + site.renewable_energy_share * 12 + site.power_availability * 8))

calculate_energy_score(site) ==
    LET price_score ==
            IF site.power_price_eur_mwh <= 50 THEN Pts(50)
            ELSE IF site.power_price_eur_mwh >= 150 THEN 0
            ELSE Pts(50) - (site.power_price_eur_mwh - 50) * 20
        renewable_score == site.renewable_energy_share * 12
        availability_score == site.power_availability * 8
        total_score == price_score + renewable_score + availability_score
    IN  Min(Pts(100), Max(0, total_score))

calculate_policy_score(site) ==
    LET ets_score ==
            IF site.eu_ets_price >= 80 THEN Pts(40)
            ELSE IF site.eu_ets_price <= 40 THEN 0
            ELSE (site.eu_ets_price - 40) * 40
        cbam_score == IF site.cbam_applicable THEN Pts(30) ELSE 0
        intensity_score ==
            IF site.emissions_intensity <= 200 THEN Pts(30)
            ELSE IF site.emissions_intensity >= 800 THEN 0
            ELSE Pts(30) - (site.emissions_intensity - 200) * 2
        total_score == ets_score + cbam_score + intensity_score
    IN  Min(Pts(100), Max(0, total_score))

\* dict.get(key, default) on one of the three lookup tables.
Lookup(table, key, default) == IF key \in DOMAIN table THEN table[key] ELSE default

zone_scores ==
    [Chemical |-> 40, Refinery |-> 35, Steel |-> 30, Cement |-> 25, Power |-> 20,
     Other |-> 15]
utility_scores == [Excellent |-> 30, Good |-> 25, Fair |-> 20, Poor |-> 10]
transport_scores == [Excellent |-> 30, Good |-> 25, Fair |-> 20, Poor |-> 10]

calculate_infrastructure_score(site) ==
    LET zone_score == Pts(Lookup(zone_scores, site.industrial_zone, 15))
        utility_score == Pts(Lookup(utility_scores, site.utility_availability, 15))
        transport_score == Pts(Lookup(transport_scores, site.transport_access, 15))
        total_score == zone_score + utility_score + transport_score
    IN  Min(Pts(100), Max(0, total_score))

calculate_financial_score(site) ==
    LET labor_score ==
            IF site.labor_costs <= 25 THEN Pts(40)
            ELSE IF site.labor_costs >= 50 THEN 0
            ELSE Pts(40) - (site.labor_costs - 25) * 64
        land_score ==
            IF site.land_costs <= 100 THEN Pts(30)
            ELSE IF site.land_costs >= 500 THEN 0
            ELSE Pts(30) - (site.land_costs - 100) * 3
        incentive_score == Min(Pts(30), site.tax_incentives * 12)
        total_score == labor_score + land_score + incentive_score
    IN  Min(Pts(100), Max(0, total_score))

(***************************************************************************)
(* SiteScreeningEngine.evaluate_sites                                      *)
(***************************************************************************)
\* Lines 210-214: the five sub-scores are stored on the site.
WithSubScores(site) ==
    [site EXCEPT !.co2_availability_score = calculate_co2_score(site),
                 !.energy_score = calculate_energy_score(site),
                 !.policy_score = calculate_policy_score(site),
                 !.infrastructure_score = calculate_infrastructure_score(site),
                 !.financial_score = calculate_financial_score(site)]

\* The weighted total with the energy weight applied to the financial score.
WeightedTotalEnergyTwice(site, w) ==
    site.co2_availability_score * w["co2_availability"] +
    site.energy_score * w["energy"] +
    site.policy_score * w["policy"] +
    site.infrastructure_score * w["infrastructure"] +
    site.financial_score * w["energy"]

\* Lines 217-223: the weighted total of the stored sub-scores (in 1/4000 point).
WeightedTotal(site, w) ==
    site.co2_availability_score * w["co2_availability"] +
    site.energy_score * w["energy"] +
    site.policy_score * w["policy"] +
    site.infrastructure_score * w["infrastructure"] +
    site.financial_score * w["financial"]

\* One pass of the loop body for one site.
ScoreSite(site, w) ==
    LET scored == WithSubScores(site)
    IN  [scored EXCEPT !.total_score = WeightedTotal(scored, w)]

\* The insertion step of a sort that is not stable: x goes in front of the
\* elements of equal total.
InsertBeforeTies(t, x) ==
    LET before == { i \in 1..Len(t) : t[i].total_score > x.total_score }
        k == Cardinality(before)
    IN  SubSeq(t, 1, k) \o <<x>> \o SubSeq(t, k + 1, Len(t))

\* The sort without reverse=True: ascending totals.
InsertAsc(t, x) ==
    LET before == { i \in 1..Len(t) : t[i].total_score <= x.total_score }
        k == Cardinality(before)
    IN  SubSeq(t, 1, k) \o <<x>> \o SubSeq(t, k + 1, Len(t))

RECURSIVE SortByTotalAsc(_)
SortByTotalAsc(s) ==
    IF s = <<>> THEN <<>>
    ELSE InsertAsc(SortByTotalAsc(SubSeq(s, 1, Len(s) - 1)), s[Len(s)])

\* Rankings that start at 0: ranking = i instead of i + 1.
AssignRankingsFromZero(s) == [i \in 1..Len(s) |-> [s[i] EXCEPT !.ranking = i - 1]]

\* list.sort(key=total_score, reverse=True): a stable sort, so sites of equal
\* total_score keep the order they had in the list.  InsertDesc puts x behind
\* every element whose total is >= the total of x.
InsertDesc(t, x) ==
    LET before == { i \in 1..Len(t) : t[i].total_score >= x.total_score }
        k == Cardinality(before)
    IN  SubSeq(t, 1, k) \o <<x>> \o SubSeq(t, k + 1, Len(t))

RECURSIVE SortByTotalDesc(_)
SortByTotalDesc(s) ==
    IF s = <<>> THEN <<>>
    ELSE InsertDesc(SortByTotalDesc(SubSeq(s, 1, Len(s) - 1)), s[Len(s)])

\* Lines 229-230: ranking = 1-based position.
AssignRankings(s) == [i \in 1..Len(s) |-> [s[i] EXCEPT !.ranking = i]]

\* evaluate_sites on collection s with weights w: the collection it leaves, what
\* it returns and the exception it ends with.
\*   - a weight mapping that lacks a dimension raises KeyError at line 218, after
\*     the sub-scores of the first site have been stored;
\*   - on an empty collection the loops do nothing and the log line 232 reads
\*     self.sites[0]: IndexError.
evaluate_sites(s, w) ==
    IF s # <<>> /\ ~(Dimensions \subseteq DOMAIN w)
    THEN [sites |-> [s EXCEPT ![1] = WithSubScores(s[1])], ret |-> "None",
          raised |-> "KeyError"]
    ELSE IF s = <<>>
    THEN [sites |-> s, ret |-> "None", raised |-> "IndexError"]
    ELSE LET ranked ==
                AssignRankings(SortByTotalDesc([i \in 1..Len(s) |-> ScoreSite(s[i], w)]))
         IN  [sites |-> ranked, ret |-> ranked, raised |-> "none"]

\* get_top_sites(n): evaluates only when the collection is empty, then slices.
get_top_sites(s, w, n) ==
    LET ev == evaluate_sites(s, w)
    IN  IF s = <<>> /\ ev.raised # "none"
        THEN ev
        ELSE [sites |-> s, ret |-> SubSeq(s, 1, Min(n, Len(s))), raised |-> "none"]

(***************************************************************************)
(* Operations of SiteScreeningEngine                                       *)
(***************************************************************************)
\* add_site(site_data): the constructor's TypeError is caught and logged at
\* lines 79-80, so the call returns None either way.
AddSiteResult(s, n, site_data) ==
    IF SiteMetricsAccepts(site_data)
    THEN [sites |-> Append(s, SiteMetrics(site_data, n + 1)), nAdded |-> n + 1,
          raised |-> "none"]
    ELSE [sites |-> s, nAdded |-> n, raised |-> "none"]

AddSite ==
    \E site_data \in SitePool \cup MalformedSiteData :
        /\ Len(sites) < MaxSites
        /\ LET r == AddSiteResult(sites, nAdded, site_data)
           IN  /\ sites' = r.sites
               /\ nAdded' = r.nAdded
               /\ raised' = r.raised
        /\ added' = IF SiteMetricsAccepts(site_data) THEN Append(added, site_data)
                                                     ELSE added
        /\ op' = "add_site"
        /\ prev' = op
        /\ arg' = site_data
        /\ ret' = "None"
        /\ UNCHANGED <<weights, financial_models, analysis_results, fm, probe>>

EvaluateSites ==
    /\ LET r == evaluate_sites(sites, weights)
       IN  /\ sites' = r.sites
           /\ ret' = r.ret
           /\ raised' = r.raised
    /\ op' = "evaluate_sites"
    /\ prev' = op
    /\ arg' = "None"
    /\ UNCHANGED <<weights, nAdded, added, financial_models, analysis_results, fm, probe>>

\* The values of n the callers pass to get_top_sites (5 is the default and the
\* value run_comprehensive_analysis passes).
TopNChoices == {1, 2, 5}

GetTopSites ==
    \E n \in TopNChoices :
        /\ LET r == get_top_sites(sites, weights, n)
           IN  /\ sites' = r.sites
               /\ ret' = r.ret
               /\ raised' = r.raised
        /\ op' = "get_top_sites"
        /\ prev' = op
        /\ arg' = n
        /\ UNCHANGED <<weights, nAdded, added, financial_models, analysis_results, fm, probe>>

(***************************************************************************)
(* Exact rational arithmetic for the financial model                       *)
(*                                                                         *)
(* The source computes money and rates in floating point; the model holds  *)
(* each such quantity as a reduced fraction [num, den] with den > 0.       *)
(***************************************************************************)
Abs(a) == IF a < 0 THEN -a ELSE a

RECURSIVE GCD(_, _)
GCD(a, b) == IF b = 0 THEN a ELSE GCD(b, a % b)

Rat(n, d) ==
    LET g == GCD(Abs(n), Abs(d))
        sgn == IF d < 0 THEN -1 ELSE 1
    IN  [num |-> (sgn * n) \div g, den |-> (sgn * d) \div g]

RInt(n) == [num |-> n, den |-> 1]
RAdd(a, b) ==
    LET g == GCD(a.den, b.den)
    IN  Rat(a.num * (b.den \div g) + b.num * (a.den \div g), (a.den \div g) * b.den)
RNeg(a) == [num |-> -a.num, den |-> a.den]
RSub(a, b) == RAdd(a, RNeg(b))
RMul(a, b) ==
    LET x == Rat(a.num, b.den)
        y == Rat(b.num, a.den)
    IN  [num |-> x.num * y.num, den |-> x.den * y.den]
\* a / b for b # 0 (the callers raise ZeroDivisionError before dividing by 0).
RDiv(a, b) == RMul(a, Rat(b.den, b.num))
RIsZero(a) == a.num = 0
RLess(a, b) == a.num * b.den < b.num * a.den
RLeq(a, b) == a.num * b.den <= b.num * a.den
RMin(a, b) == IF RLeq(a, b) THEN a ELSE b

RECURSIVE RPow(_, _)
RPow(a, n) == IF n = 0 THEN RInt(1) ELSE RMul(a, RPow(a, n - 1))

RECURSIVE RSum(_)
RSum(s) == IF s = <<>> THEN RInt(0) ELSE RAdd(s[1], RSum(Tail(s)))

(***************************************************************************)
(* FinancialModel                                                          *)
(***************************************************************************)
\* ProjectParameters with the dataclass defaults for the fields the callers of
\* the repository never set (discount_rate is passed so that 0 can be chosen).
ProjectParameters(co2_input_tpy, co_output_tpy, lifetime, construction, ramp_up, discount_rate) ==
    [co2_input_tpy |-> co2_input_tpy,
     co_output_tpy |-> co_output_tpy,
     project_lifetime_years |-> lifetime,
     construction_period_years |-> construction,
     ramp_up_period_years |-> ramp_up,
     discount_rate |-> discount_rate,
     eu_ets_price_eur_ton |-> RInt(85),
     carbon_credit_price_eur_ton |-> RInt(85)]

\* FinancialModel.__init__.  cost_structure and financial_metrics are <<>> for
\* None / {} and a one-element sequence when set.
FinancialModel(project_params) ==
    [project_params |-> project_params,
     cost_structure |-> <<>>,
     cash_flows |-> <<>>,
     financial_metrics |-> <<>>]

\* calculate_capex: builds and RETURNS a CostStructure; it assigns nothing to
\* self.  Line 84 divides by construction_period_years.
calculate_capex(m, equipment_cost) ==
    LET installation_capex == RMul(equipment_cost, Rat(15, 100))
        engineering_capex == RMul(equipment_cost, Rat(10, 100))
        contingency_capex == RMul(equipment_cost, Rat(20, 100))
        total_capex == RAdd(RAdd(RAdd(equipment_cost, installation_capex),
                                 engineering_capex), contingency_capex)
    IN  IF m.project_params.construction_period_years = 0
        THEN [model |-> m, ret |-> "None", raised |-> "ZeroDivisionError"]
        ELSE [model |-> m,
              ret |-> [equipment_capex |-> equipment_cost,
                       installation_capex |-> installation_capex,
                       engineering_capex |-> engineering_capex,
                       contingency_capex |-> contingency_capex,
                       total_capex |-> total_capex,
                       electricity_cost |-> RInt(0),
                       water_cost |-> RInt(0),
                       labor_cost |-> RInt(0),
                       maintenance_cost |-> RInt(0),
                       insurance_cost |-> RInt(0),
                       total_opex |-> RInt(0),
                       co_sales_revenue |-> RInt(0),
                       carbon_credits_revenue |-> RInt(0),
                       avoided_co2_costs |-> RInt(0),
                       total_revenue |-> RInt(0)],
              raised |-> "none"]

\* calculate_opex without the check of lines 122-123: on a model without a cost
\* structure it returns normally.
calculate_opex_unchecked(m, power_price_eur_mwh, power_consumption_mwh_per_ton_co, water_consumption_m3_per_ton_co, water_price_eur_m3, labor_hours_per_ton_co, labor_rate_eur_per_hour) ==
    [model |-> m, ret |-> "None", raised |-> "none"]

\* calculate_opex with the default maintenance and insurance factors.
calculate_opex(m, power_price_eur_mwh, power_consumption_mwh_per_ton_co, water_consumption_m3_per_ton_co, water_price_eur_m3, labor_hours_per_ton_co, labor_rate_eur_per_hour) ==
    IF m.cost_structure = <<>>
    THEN [model |-> m, ret |-> "None", raised |-> "ValueError"]
    ELSE
    LET cs == m.cost_structure[1]
        out == m.project_params.co_output_tpy
        electricity_cost ==
            RMul(RMul(out, power_consumption_mwh_per_ton_co), power_price_eur_mwh)
        water_cost == RMul(RMul(out, water_consumption_m3_per_ton_co), water_price_eur_m3)
        labor_cost == RMul(RMul(out, labor_hours_per_ton_co), labor_rate_eur_per_hour)
        maintenance_cost == RMul(cs.total_capex, Rat(3, 100))
        insurance_cost == RMul(cs.total_capex, Rat(1, 100))
        total_opex == RAdd(RAdd(RAdd(RAdd(electricity_cost, water_cost), labor_cost),
                                maintenance_cost), insurance_cost)
    IN  [model |-> [m EXCEPT !.cost_structure =
                        <<[cs EXCEPT !.electricity_cost = electricity_cost,
                                     !.water_cost = water_cost,
                                     !.labor_cost = labor_cost,
                                     !.maintenance_cost = maintenance_cost,
                                     !.insurance_cost = insurance_cost,
                                     !.total_opex = total_opex]>>],
         ret |-> "None", raised |-> "none"]

\* calculate_revenue; carbon_credit_volume_tpy is <<>> for None.  A volume of 0
\* is falsy and takes the co2_input_tpy branch like None.
calculate_revenue(m, co_price_eur_per_ton, carbon_credit_volume_tpy) ==
    IF m.cost_structure = <<>>
    THEN [model |-> m, ret |-> "None", raised |-> "ValueError"]
    ELSE
    LET cs == m.cost_structure[1]
        pp == m.project_params
        co_sales_revenue == RMul(pp.co_output_tpy, co_price_eur_per_ton)
        carbon_credits_revenue ==
            IF carbon_credit_volume_tpy # <<>> /\ ~RIsZero(carbon_credit_volume_tpy[1])
            THEN RMul(carbon_credit_volume_tpy[1], pp.carbon_credit_price_eur_ton)
            ELSE RMul(pp.co2_input_tpy, pp.carbon_credit_price_eur_ton)
        avoided_co2_costs == RMul(pp.co2_input_tpy, pp.eu_ets_price_eur_ton)
        total_revenue ==
            RAdd(RAdd(co_sales_revenue, carbon_credits_revenue), avoided_co2_costs)
    IN  [model |-> [m EXCEPT !.cost_structure =
                        <<[cs EXCEPT !.co_sales_revenue = co_sales_revenue,
                                     !.carbon_credits_revenue = carbon_credits_revenue,
                                     !.avoided_co2_costs = avoided_co2_costs,
                                     !.total_revenue = total_revenue]>>],
         ret |-> "None", raised |-> "none"]

\* An operating entry whose cumulative cash flow does not carry the previous
\* entry's over.
OperatingEntryWithoutCarry(st, label, year, revenue, opex) ==
    [cash_flows |->
        Append(st.cash_flows,
               [year |-> st.current_year,
                period |-> <<label, year + 1>>,
                capex |-> RInt(0),
                opex |-> RNeg(opex),
                revenue |-> revenue,
                net_cash_flow |-> RSub(revenue, opex),
                cumulative_cash_flow |-> RSub(revenue, opex)]),
     current_year |-> st.current_year + 1]

\* An operating entry whose net cash flow adds the opex to the revenue.
OperatingEntryOpexAdded(st, label, year, revenue, opex) ==
    LET net_cash_flow == RAdd(revenue, opex)
        last == st.cash_flows[Len(st.cash_flows)]
    IN  [cash_flows |->
            Append(st.cash_flows,
                   [year |-> st.current_year,
                    period |-> <<label, year + 1>>,
                    capex |-> RInt(0),
                    opex |-> RNeg(opex),
                    revenue |-> revenue,
                    net_cash_flow |-> net_cash_flow,
                    cumulative_cash_flow |-> RAdd(last.cumulative_cash_flow, net_cash_flow)]),
         current_year |-> st.current_year + 1]

\* One entry of the ramp-up or the operation phase (lines 224-233, 244-253):
\* st is the loop state [cash_flows, current_year].
OperatingEntry(st, label, year, revenue, opex) ==
    LET net_cash_flow == RSub(revenue, opex)
        last == st.cash_flows[Len(st.cash_flows)]
    IN  [cash_flows |->
            Append(st.cash_flows,
                   [year |-> st.current_year,
                    period |-> <<label, year + 1>>,
                    capex |-> RInt(0),
                    opex |-> RNeg(opex),
                    revenue |-> revenue,
                    net_cash_flow |-> net_cash_flow,
                    cumulative_cash_flow |-> RAdd(last.cumulative_cash_flow, net_cash_flow)]),
         current_year |-> st.current_year + 1]

\* for year in range(n): one OperatingEntry per iteration, from iteration `year`.
RECURSIVE OperatingPhase(_, _, _, _, _, _)
OperatingPhase(st, label, year, n, revenue, opex) ==
    IF year >= n THEN st
    ELSE OperatingPhase(OperatingEntry(st, label, year, revenue, opex),
                        label, year + 1, n, revenue, opex)

\* The construction loop (lines 205-215).
RECURSIVE ConstructionPhase(_, _, _, _)
ConstructionPhase(st, year, n, annual_capex) ==
    IF year >= n THEN st
    ELSE ConstructionPhase(
            [cash_flows |->
                Append(st.cash_flows,
                       [year |-> st.current_year,
                        period |-> <<"Construction", year + 1>>,
                        capex |-> RNeg(annual_capex),
                        opex |-> RInt(0),
                        revenue |-> RInt(0),
                        net_cash_flow |-> RNeg(annual_capex),
                        cumulative_cash_flow |->
                            RMul(RNeg(annual_capex), RInt(year + 1))]),
             current_year |-> st.current_year + 1],
            year + 1, n, annual_capex)

\* generate_cash_flows: ValueError without a cost structure; line 204 divides by
\* construction_period_years; self.cash_flows is assigned only at the end.
generate_cash_flows(m) ==
    IF m.cost_structure = <<>>
    THEN [model |-> m, ret |-> "None", raised |-> "ValueError"]
    ELSE IF m.project_params.construction_period_years = 0
    THEN [model |-> m, ret |-> "None", raised |-> "ZeroDivisionError"]
    ELSE
    LET cs == m.cost_structure[1]
        pp == m.project_params
        annual_capex == RDiv(cs.total_capex, RInt(pp.construction_period_years))
        built == ConstructionPhase([cash_flows |-> <<>>, current_year |-> 0], 0,
                                   pp.construction_period_years, annual_capex)
        ramp_up_factor == Rat(1, 2)
        ramped == OperatingPhase(built, "Ramp-up", 0, pp.ramp_up_period_years,
                                 RMul(cs.total_revenue, ramp_up_factor),
                                 RMul(cs.total_opex, ramp_up_factor))
        full == OperatingPhase(ramped, "Operation", 0,
                               pp.project_lifetime_years - pp.construction_period_years
                                   - pp.ramp_up_period_years,
                               cs.total_revenue, cs.total_opex)
    IN  [model |-> [m EXCEPT !.cash_flows = full.cash_flows],
         ret |-> full.cash_flows, raised |-> "none"]

\* An npv loop that discounts year 0 as well (exponent i + 1).
RECURSIVE NpvDiscountingYearZero(_, _, _)
NpvDiscountingYearZero(net_cash_flows, i, discount_rate) ==
    IF i >= Len(net_cash_flows) THEN RInt(0)
    ELSE RAdd(RDiv(net_cash_flows[i + 1], RPow(RAdd(RInt(1), discount_rate), i + 1)),
              NpvDiscountingYearZero(net_cash_flows, i + 1, discount_rate))

\* npv: the loop of lines 269-271 over net_cash_flows[i..], i 0-based.
RECURSIVE NpvFrom(_, _, _)
NpvFrom(net_cash_flows, i, discount_rate) ==
    IF i >= Len(net_cash_flows) THEN RInt(0)
    ELSE RAdd(RDiv(net_cash_flows[i + 1], RPow(RAdd(RInt(1), discount_rate), i)),
              NpvFrom(net_cash_flows, i + 1, discount_rate))

\* _estimate_irr: average positive flow per year over the total investment, in
\* percent, capped at 100.
estimate_irr(cash_flows) ==
    LET negatives == [i \in 1..Len(cash_flows) |->
                        IF cash_flows[i].num < 0 THEN cash_flows[i] ELSE RInt(0)]
        positives == [i \in 1..Len(cash_flows) |->
                        IF cash_flows[i].num > 0 THEN cash_flows[i] ELSE RInt(0)]
        s == RSum(negatives)
        total_investment == [num |-> Abs(s.num), den |-> s.den]
        total_return == RSum(positives)
        avg_return_per_year == RDiv(total_return, RInt(Len(cash_flows)))
        irr == RMul(RDiv(avg_return_per_year, total_investment), RInt(100))
    IN  IF Len(cash_flows) < 2 THEN RInt(0)
        ELSE IF RIsZero(total_investment) THEN RInt(0)
        ELSE RMin(irr, RInt(100))

\* A payback period counted from 1: the position of the first cumulative cash
\* flow >= 0 instead of its 0-based index.
calculate_payback_period_one_based(cumulative_cash_flows) ==
    LET hits == { i \in 1..Len(cumulative_cash_flows) :
                    cumulative_cash_flows[i].num >= 0 }
    IN  IF hits = {} THEN Len(cumulative_cash_flows)
        ELSE CHOOSE i \in hits : \A j \in hits : i <= j

\* _calculate_payback_period: the first 0-based index whose cumulative cash flow
\* is >= 0, the length of the list when there is none.
calculate_payback_period(cumulative_cash_flows) ==
    LET hits == { i \in 1..Len(cumulative_cash_flows) :
                    cumulative_cash_flows[i].num >= 0 }
    IN  IF hits = {} THEN Len(cumulative_cash_flows)
        ELSE (CHOOSE i \in hits : \A j \in hits : i <= j) - 1

\* Lines 281-307 of calculate_financial_metrics, given the npv of lines 269-271:
\* lines 292 and 293 divide by co2_input_tpy * project_lifetime_years and by
\* co_output_tpy.
MetricsRecord(m1, npv) ==
    LET cs == m1.cost_structure[1]
        pp == m1.project_params
        total_capex == cs.total_capex
        annual_profit == RSub(cs.total_revenue, cs.total_opex)
        co2_lifetime == RMul(pp.co2_input_tpy, RInt(pp.project_lifetime_years))
    IN  [npv_eur |-> npv,
         irr_percent |->
            estimate_irr([i \in 1..Len(m1.cash_flows) |-> m1.cash_flows[i].net_cash_flow]),
         payback_period_years |->
            calculate_payback_period(
                [i \in 1..Len(m1.cash_flows) |-> m1.cash_flows[i].cumulative_cash_flow]),
         profitability_index |->
            IF total_capex.num > 0 THEN RDiv(RAdd(npv, total_capex), total_capex)
            ELSE RInt(0),
         annual_roi_percent |->
            IF total_capex.num > 0
            THEN RMul(RDiv(annual_profit, total_capex), RInt(100))
            ELSE RInt(0),
         cost_per_ton_co2_avoided_eur |-> RDiv(RNeg(npv), co2_lifetime),
         revenue_per_ton_co_eur |-> RDiv(cs.co_sales_revenue, pp.co_output_tpy),
         total_capex_eur |-> total_capex,
         annual_revenue_eur |-> cs.total_revenue,
         annual_opex_eur |-> cs.total_opex,
         annual_profit_eur |-> annual_profit]

\* Lines 264-316 on a model m1 that has its schedule.
MetricsOfSchedule(m1) ==
    IF \/ RIsZero(m1.project_params.co2_input_tpy)
       \/ m1.project_params.project_lifetime_years = 0
       \/ RIsZero(m1.project_params.co_output_tpy)
    THEN [model |-> m1, ret |-> "None", raised |-> "ZeroDivisionError"]
    ELSE [model |-> m1,
          ret |-> MetricsRecord(m1,
                    NpvFrom([i \in 1..Len(m1.cash_flows) |-> m1.cash_flows[i].net_cash_flow],
                            0, m1.project_params.discount_rate)),
          raised |-> "none"]

\* self.financial_metrics = {...} and return (lines 295-316).
StoreMetrics(r) ==
    IF r.raised # "none" THEN r
    ELSE [r EXCEPT !.model.financial_metrics = <<r.ret>>]

\* The result gen of the generate_cash_flows call of line 262: its exception
\* propagates, otherwise the metrics are computed on the model it left.
MetricsAfterGenerate(gen) ==
    IF gen.raised # "none" THEN gen ELSE StoreMetrics(MetricsOfSchedule(gen.model))

\* calculate_financial_metrics: an empty schedule is generated first.
calculate_financial_metrics(m) ==
    IF m.cash_flows = <<>> THEN MetricsAfterGenerate(generate_cash_flows(m))
    ELSE StoreMetrics(MetricsOfSchedule(m))

(***************************************************************************)
(* CarbonSiteAIEngine                                                      *)
(***************************************************************************)
\* The countries of EUPolicyEngine.eu_countries.
eu_countries ==
    {"AT", "BE", "BG", "HR", "CY", "CZ", "DE", "DK", "EE", "FI", "FR", "GR", "HU",
     "IE", "IT", "LV", "LT", "LU", "MT", "NL", "PL", "PT", "RO", "SK", "SI", "ES", "SE"}

\* EUPolicyEngine.calculate_policy_risk_score, reduced to the risk_level the core
\* reads: four risk factors of weight 5, 3, 8 and 4, each counted once per five
\* project years; a site outside the EU gets a record without risk_level.
calculate_policy_risk_score(country, project_lifetime_years) ==
    LET total_risk_score == (project_lifetime_years \div 5) * (5 + 3 + 8 + 4)
        normalized_risk == Min(100, Max(0, total_risk_score))
    IN  IF country \notin eu_countries THEN "absent"
        ELSE IF normalized_risk <= 25 THEN "Low"
        ELSE IF normalized_risk <= 50 THEN "Medium"
        ELSE IF normalized_risk <= 75 THEN "High"
        ELSE "Very High"

\* _identify_key_risks with the payback flag raised from 5 years on (>= 5).
identify_key_risks_from_five(site, financial_metrics, risk_level) ==
    (IF Lookup(financial_metrics, "payback_period_years", 0) >= 5
        THEN <<"Long payback period may affect financing">> ELSE <<>>) \o
    (IF RLess(Lookup(financial_metrics, "irr_percent", RInt(0)), RInt(15))
        THEN <<"Low IRR may not meet investor requirements">> ELSE <<>>) \o
    (IF risk_level \in {"High", "Very High"}
        THEN <<"High policy uncertainty in target region">> ELSE <<>>) \o
    (IF site.infrastructure_score < Pts(70)
        THEN <<"Infrastructure limitations may increase costs">> ELSE <<>>) \o
    (IF site.energy_score < Pts(70)
        THEN <<"Energy costs and availability concerns">> ELSE <<>>)

\* _identify_key_risks: the flags in the order the source appends them.
\* risk_level is policy_analysis['policy_risk_assessment']['risk_level']; the
\* two financial metrics are read with .get(key, 0).
identify_key_risks(site, financial_metrics, risk_level) ==
    (IF Lookup(financial_metrics, "payback_period_years", 0) > 5
        THEN <<"Long payback period may affect financing">> ELSE <<>>) \o
    (IF RLess(Lookup(financial_metrics, "irr_percent", RInt(0)), RInt(15))
        THEN <<"Low IRR may not meet investor requirements">> ELSE <<>>) \o
    (IF risk_level \in {"High", "Very High"}
        THEN <<"High policy uncertainty in target region">> ELSE <<>>) \o
    (IF site.infrastructure_score < Pts(70)
        THEN <<"Infrastructure limitations may increase costs">> ELSE <<>>) \o
    (IF site.energy_score < Pts(70)
        THEN <<"Energy costs and availability concerns">> ELSE <<>>)

\* _generate_mitigation_strategies.
generate_mitigation_strategies(site, financial_metrics, risk_level) ==
    (IF Lookup(financial_metrics, "payback_period_years", 0) > 5
        THEN <<"Consider phased deployment to reduce initial CAPEX",
               "Explore government grants and incentives">> ELSE <<>>) \o
    (IF risk_level \in {"High", "Very High"}
        THEN <<"Engage with local policymakers early",
               "Develop flexible project design">> ELSE <<>>) \o
    (IF site.infrastructure_score < Pts(70)
        THEN <<"Partner with local infrastructure providers",
               "Consider modular system design">> ELSE <<>>)

\* _generate_overall_recommendations: the primary recommendation names the first
\* bundle; the six fixed texts that follow are kept as one entry.
generate_overall_recommendations(top_sites, target_capacity) ==
    (IF top_sites # <<>>
        THEN <<[deploy_at |-> top_sites[1].site_info.name,
                score |-> top_sites[1].screening_scores.total_score]>>
        ELSE <<>>) \o
    (IF target_capacity <= 100
        THEN <<"Consider starting with smaller pilot to validate technology and market">>
        ELSE IF target_capacity >= 500
        THEN <<"Large capacity may require additional financing and risk mitigation">>
        ELSE <<>>) \o
    <<"policy, financial and risk-management recommendations">>

\* dict[key] = value.
DictSet(d, key, value) ==
    [k \in (DOMAIN d) \cup {key} |-> IF k = key THEN value ELSE d[k]]

\* Lines 236-266: the financial model of one top site, stage after stage; the
\* first stage that raises ends the pipeline with its exception.  The value
\* calculate_capex returns is bound to a local name only (line 248); the later
\* stages run on financial_model itself.
AfterRevenue(revenue) ==
    IF revenue.raised # "none" THEN revenue
    ELSE calculate_financial_metrics(revenue.model)

AfterOpex(opex) ==
    IF opex.raised # "none" THEN opex
    ELSE AfterRevenue(calculate_revenue(opex.model, RInt(800), <<>>))

AfterCapex(site, capex) ==
    IF capex.raised # "none" THEN capex
    ELSE AfterOpex(calculate_opex(capex.model, RInt(site.power_price_eur_mwh), Rat(5, 2),
                                  RInt(5), RInt(2), RInt(10), RInt(site.labor_costs)))

SiteFinancials(site, target_capacity) ==
    AfterCapex(site,
        calculate_capex(
            FinancialModel(ProjectParameters(RInt(target_capacity),
                                             Rat(target_capacity, 2), 20, 2, 1,
                                             Rat(10, 100))),
            RMul(RInt(2000000), Rat(target_capacity, 100))))

\* Lines 289-312: the bundle of one analysed site.
SiteAnalysis(site, financial_metrics) ==
    LET risk_level == calculate_policy_risk_score(site.country, 20)
    IN  [ranking |-> site.ranking,
         site_info |-> [name |-> site.name, country |-> site.country,
                        region |-> site.region],
         screening_scores |->
            [total_score |-> site.total_score,
             co2_availability |-> site.co2_availability_score,
             energy |-> site.energy_score,
             policy |-> site.policy_score,
             infrastructure |-> site.infrastructure_score,
             financial |-> site.financial_score],
         financial_analysis |-> financial_metrics,
         policy_analysis |-> [policy_risk_assessment |-> [risk_level |-> risk_level]],
         risk_assessment |->
            [overall_risk |-> IF site.total_score >= 100 * Pts(80) THEN "Low"
                              ELSE IF site.total_score >= 100 * Pts(60) THEN "Medium"
                              ELSE "High",
             key_risks |-> identify_key_risks(site, financial_metrics, risk_level),
             mitigation_strategies |->
                generate_mitigation_strategies(site, financial_metrics, risk_level)]]

\* The loop of lines 233-317 from the i-th top site on; acc is
\* [top_sites, financial_models, raised] and fin the outcome of the financial
\* pipeline of the i-th site.
RECURSIVE AnalyseTopSites(_, _, _, _)
RECURSIVE AnalyseSite(_, _, _, _, _)
AnalyseSite(top, i, acc, target_capacity, fin) ==
    IF fin.raised # "none"
    THEN [acc EXCEPT !.raised = fin.raised]
    ELSE AnalyseTopSites(
            top, i + 1,
            [top_sites |-> Append(acc.top_sites, SiteAnalysis(top[i], fin.ret)),
             financial_models |-> DictSet(acc.financial_models, top[i].site_id, fin.model),
             raised |-> "none"],
            target_capacity)

AnalyseTopSites(top, i, acc, target_capacity) ==
    IF i > Len(top) THEN acc
    ELSE AnalyseSite(top, i, acc, target_capacity, SiteFinancials(top[i], target_capacity))

\* The weights of the example run at the end of main_engine.py, and a mapping
\* that lacks the 'financial' dimension.
ExampleWeights ==
    [co2_availability |-> 30, energy |-> 25, policy |-> 20,
     infrastructure |-> 15, financial |-> 10]
PartialWeights ==
    [co2_availability |-> 30, energy |-> 25, policy |-> 20, infrastructure |-> 25]

\* priority_weights as callers pass it; <<>> stands for None (and {}), which is
\* falsy and selects the defaults of lines 204-210.
PriorityWeightChoices == {<<>>, ExampleWeights, PartialWeights}
TargetCapacityChoices == {100, 500}

\* Lines 319-328: the report is completed, stored and returned, unless a site's
\* analysis raised (then financial_models keeps the models stored so far).
FinishAnalysis(ev, done, results, target_capacity, w) ==
    IF done.raised # "none"
    THEN [sites |-> ev.sites, weights |-> w, financial_models |-> done.financial_models,
          analysis_results |-> results, ret |-> "None", raised |-> done.raised]
    ELSE LET report ==
                [target_capacity |-> target_capacity,
                 priority_weights |-> w,
                 top_sites |-> done.top_sites,
                 recommendations |->
                    generate_overall_recommendations(done.top_sites, target_capacity)]
         IN  [sites |-> ev.sites, weights |-> w,
              financial_models |-> done.financial_models,
              analysis_results |-> <<report>>, ret |-> report, raised |-> "none"]

\* Lines 217-317 given the outcome ev of evaluate_sites (line 217).
AnalyseEvaluated(ev, models, results, target_capacity, w) ==
    IF ev.raised # "none"
    THEN [sites |-> ev.sites, weights |-> w, financial_models |-> models,
          analysis_results |-> results, ret |-> "None", raised |-> ev.raised]
    ELSE FinishAnalysis(ev,
            AnalyseTopSites(get_top_sites(ev.sites, w, 5).ret, 1,
                [top_sites |-> <<>>, financial_models |-> models, raised |-> "none"],
                target_capacity),
            results, target_capacity, w)

\* Lines 213-217 with the weights w chosen at lines 203-210.
AnalyseWithWeights(s, models, results, target_capacity, w) ==
    AnalyseEvaluated(evaluate_sites(s, w), models, results, target_capacity, w)

\* run_comprehensive_analysis(target_capacity, priority_weights): the state it
\* leaves, what it returns and the exception it ends with.
run_comprehensive_analysis(s, models, results, target_capacity, priority_weights) ==
    AnalyseWithWeights(s, models, results, target_capacity,
        IF DOMAIN priority_weights = {} THEN DefaultWeights ELSE priority_weights)

RunComprehensiveAnalysis ==
    \E target_capacity \in TargetCapacityChoices, pw \in PriorityWeightChoices :
        /\ LET r == run_comprehensive_analysis(sites, financial_models, analysis_results,
                                               target_capacity, pw)
           IN  /\ sites' = r.sites
               /\ weights' = r.weights
               /\ financial_models' = r.financial_models
               /\ analysis_results' = r.analysis_results
               /\ ret' = r.ret
               /\ raised' = r.raised
        /\ op' = "run_comprehensive_analysis"
        /\ prev' = op
        /\ arg' = pw
        /\ UNCHANGED <<nAdded, added, fm, probe>>

(***************************************************************************)
(* A FinancialModel driven directly by a caller                            *)
(***************************************************************************)
\* The project parameters callers construct a model with.  Lifetimes are kept
\* short; 0 construction years, 0 input and 0 output are the degenerate cases.
ProjectParameterChoices ==
    { ProjectParameters(RInt(co2), RInt(co), lifetime, construction, ramp_up, rate) :
        co2 \in {0, 100}, co \in {0, 50}, lifetime \in {3, 4},
        construction \in {0, 1, 2}, ramp_up \in {0, 1},
        rate \in {RInt(0), Rat(10, 100)} }

\* The parameters of the example at the end of financial_modeling.py, with a
\* short lifetime.
ExampleParameters == ProjectParameters(RInt(100), RInt(50), 4, 2, 1, Rat(10, 100))

\* Equipment costs a caller passes: a tenth of the example's 2,000,000 (so that
\* discounted sums stay within TLC's integers), zero and a negative cost.
EquipmentCostChoices == {RInt(200000), RInt(0), RInt(-1000)}

NewFinancialModel ==
    \E project_params \in ProjectParameterChoices :
        /\ fm' = FinancialModel(project_params)
        /\ op' = "FinancialModel"
        /\ prev' = op
        /\ arg' = "None"
        /\ ret' = "None"
        /\ raised' = "none"
        /\ UNCHANGED <<engineVars, probe>>

CalculateCapex ==
    \E equipment_cost \in EquipmentCostChoices :
        /\ LET r == calculate_capex(fm, equipment_cost)
           IN  /\ fm' = r.model
               /\ ret' = r.ret
               /\ raised' = r.raised
        /\ op' = "calculate_capex"
        /\ prev' = op
        /\ arg' = equipment_cost
        /\ UNCHANGED <<engineVars, probe>>

\* calculate_opex with the arguments of the example (75 EUR/MWh, 2.5 MWh/t,
\* 5 m3/t, 2 EUR/m3, 10 h/t, 35 EUR/h).
CalculateOpex ==
    /\ LET r == calculate_opex(fm, RInt(75), Rat(5, 2), RInt(5), RInt(2), RInt(10), RInt(35))
       IN  /\ fm' = r.model
           /\ ret' = r.ret
           /\ raised' = r.raised
    /\ op' = "calculate_opex"
    /\ prev' = op
    /\ arg' = "None"
    /\ UNCHANGED <<engineVars, probe>>

CalculateRevenue ==
    \E volume \in {<<>>, <<RInt(0)>>, <<RInt(60)>>} :
        /\ LET r == calculate_revenue(fm, RInt(800), volume)
           IN  /\ fm' = r.model
               /\ ret' = r.ret
               /\ raised' = r.raised
        /\ op' = "calculate_revenue"
        /\ prev' = op
        /\ arg' = volume
        /\ UNCHANGED <<engineVars, probe>>

GenerateCashFlows ==
    /\ LET r == generate_cash_flows(fm)
       IN  /\ fm' = r.model
           /\ ret' = r.ret
           /\ raised' = r.raised
    /\ op' = "generate_cash_flows"
    /\ prev' = op
    /\ arg' = "None"
    /\ UNCHANGED <<engineVars, probe>>

CalculateFinancialMetrics ==
    /\ LET r == calculate_financial_metrics(fm)
       IN  /\ fm' = r.model
           /\ ret' = r.ret
           /\ raised' = r.raised
    /\ op' = "calculate_financial_metrics"
    /\ prev' = op
    /\ arg' = "None"
    /\ UNCHANGED <<engineVars, probe>>

(***************************************************************************)
(* The sub-score functions applied to one site                             *)
(***************************************************************************)
\* The first sample site of the repository (BASF Ludwigshafen), availability
\* rounded to an integer.
SampleSite ==
    SiteData("DE001", "DE", 3200000, 85, 75, 100, 25, 450, 85, TRUE,
             "Chemical", "Excellent", "Excellent", 35, 200, 15)

\* Sites to score: the sample site with the attributes of one dimension replaced
\* by every combination of in-range, boundary and out-of-range values.
Co2Probes ==
    { [SampleSite EXCEPT !.co2_volume_tpy = v, !.co2_concentration = c] :
        v \in {-1000, 0, 500, 1000, 3200000}, c \in {-100, 10, 20, 85, 100, 500} }
EnergyProbes ==
    { [SampleSite EXCEPT !.power_price_eur_mwh = p, !.power_availability = a,
                         !.renewable_energy_share = r] :
        p \in {-50, 0, 50, 75, 100, 150, 200}, a \in {-500, 0, 50, 100},
        r \in {-100, 0, 25, 100, 400} }
PolicyProbes ==
    { [SampleSite EXCEPT !.eu_ets_price = e, !.cbam_applicable = b,
                         !.emissions_intensity = x] :
        e \in {-10, 0, 40, 60, 80, 85, 200}, b \in BOOLEAN,
        x \in {-100, 0, 200, 450, 800, 2000} }
InfrastructureProbes ==
    { [SampleSite EXCEPT !.industrial_zone = z, !.utility_availability = u,
                         !.transport_access = t] :
        z \in {"Chemical", "Refinery", "Steel", "Cement", "Power", "Other", "Harbor"},
        u \in {"Excellent", "Good", "Fair", "Poor", "None"},
        t \in {"Excellent", "Good", "Fair", "Poor", "None"} }
FinancialProbes ==
    { [SampleSite EXCEPT !.labor_costs = l, !.land_costs = d, !.tax_incentives = t] :
        l \in {-5, 0, 25, 35, 50, 90}, d \in {-100, 0, 100, 200, 500, 900},
        t \in {-500, 0, 15, 100, 300} }

ProbeSites == Co2Probes \cup EnergyProbes \cup PolicyProbes \cup InfrastructureProbes
                \cup FinancialProbes

ScoreCall(name, value) ==
    /\ op' = name
    /\ prev' = op
    /\ ret' = value
    /\ raised' = "none"
    /\ arg' = "None"
    /\ UNCHANGED <<engineVars, fm, probe>>

CalculateCo2Score == ScoreCall("calculate_co2_score", calculate_co2_score(probe))
CalculateEnergyScore == ScoreCall("calculate_energy_score", calculate_energy_score(probe))
CalculatePolicyScore == ScoreCall("calculate_policy_score", calculate_policy_score(probe))
CalculateInfrastructureScore ==
    ScoreCall("calculate_infrastructure_score", calculate_infrastructure_score(probe))
CalculateFinancialScore ==
    ScoreCall("calculate_financial_score", calculate_financial_score(probe))

(***************************************************************************)
(* Specifications                                                          *)
(***************************************************************************)
\* The state after construction of a CarbonSiteAIEngine (with its
\* SiteScreeningEngine) and of a FinancialModel.
InitObjects ==
    /\ sites = <<>>
    /\ weights = DefaultWeights
    /\ nAdded = 0
    /\ added = <<>>
    /\ financial_models = <<>>
    /\ analysis_results = <<>>
    /\ fm = FinancialModel(ExampleParameters)
    /\ op = "init"
    /\ prev = "init"
    /\ arg = "None"
    /\ ret = "None"
    /\ raised = "none"

Init == InitObjects /\ probe = SampleSite

\* The engine: sites are added, evaluated, listed and analysed in any order.
Next == AddSite \/ EvaluateSites \/ GetTopSites \/ RunComprehensiveAnalysis

Spec == Init /\ [][Next]_vars

\* One FinancialModel, its stages called in any order.
NextFin ==
    \/ NewFinancialModel
    \/ CalculateCapex
    \/ CalculateOpex
    \/ CalculateRevenue
    \/ GenerateCashFlows
    \/ CalculateFinancialMetrics

SpecFin == Init /\ [][NextFin]_vars

\* The five sub-score functions on every probe site.
InitScore == InitObjects /\ probe \in ProbeSites

NextScore ==
    \/ CalculateCo2Score
    \/ CalculateEnergyScore
    \/ CalculatePolicyScore
    \/ CalculateInfrastructureScore
    \/ CalculateFinancialScore

SpecScore == InitScore /\ [][NextScore]_vars

(***************************************************************************)
(* The schedule and the metrics of a FinancialModel that has a cost        *)
(* structure                                                               *)
(***************************************************************************)
\* No method of FinancialModel assigns self.cost_structure (line 67 sets it to
\* None, calculate_capex only returns the CostStructure it builds), so the
\* stages after calculate_capex run only on a model whose caller has stored that
\* return value in the attribute: model.cost_structure = model.calculate_capex(c).
WithCostStructure(project_params, equipment_cost) ==
    [FinancialModel(project_params) EXCEPT
        !.cost_structure =
            <<calculate_capex(FinancialModel(project_params), equipment_cost).ret>>]

\* Parameters of such models: lifetimes shorter and longer than the construction
\* and ramp-up phases together, no CO2 input, no CO output, a zero discount rate.
ScheduleParameterChoices ==
    { ProjectParameters(RInt(tpy[1]), RInt(tpy[2]), lifetime, construction, ramp_up, rate) :
        tpy \in {<<100, 50>>, <<0, 50>>, <<100, 0>>}, lifetime \in {1, 4},
        construction \in {1, 2}, ramp_up \in {0, 1},
        rate \in {RInt(0), Rat(10, 100)} }

\* Equipment costs: a hundredth of the example's 2,000,000, which the revenue of
\* the example pays back within the lifetime, and 0.
ScheduleEquipmentCosts == {RInt(20000), RInt(0)}

InitSchedule ==
    /\ sites = <<>>
    /\ weights = DefaultWeights
    /\ nAdded = 0
    /\ added = <<>>
    /\ financial_models = <<>>
    /\ analysis_results = <<>>
    /\ fm \in { WithCostStructure(project_params, equipment_cost) :
                    project_params \in ScheduleParameterChoices,
                    equipment_cost \in ScheduleEquipmentCosts }
    /\ probe = SampleSite
    /\ op = "init"
    /\ prev = "init"
    /\ arg = "None"
    /\ ret = "None"
    /\ raised = "none"

NextSchedule ==
    \/ CalculateOpex
    \/ CalculateRevenue
    \/ GenerateCashFlows
    \/ CalculateFinancialMetrics

SpecSchedule == InitSchedule /\ [][NextSchedule]_vars

(***************************************************************************)
(* The helpers _estimate_irr and _calculate_payback_period on a list       *)
(***************************************************************************)
\* Lists of up to MaxFlows amounts, each an outflow, nothing or an inflow; among
\* them the two-entry flow -100, +110.
MaxFlows == 4
FlowAmounts == {RInt(-100), RInt(0), RInt(110)}
FlowProbes == UNION { [1..n -> FlowAmounts] : n \in 0..MaxFlows }

HelperCall(name, value) ==
    /\ op' = name
    /\ prev' = op
    /\ ret' = value
    /\ raised' = "none"
    /\ arg' = "None"
    /\ UNCHANGED <<engineVars, fm, probe>>

EstimateIrr == HelperCall("_estimate_irr", estimate_irr(probe))
CalculatePaybackPeriod ==
    HelperCall("_calculate_payback_period", calculate_payback_period(probe))

InitFlows ==
    /\ sites = <<>>
    /\ weights = DefaultWeights
    /\ nAdded = 0
    /\ added = <<>>
    /\ financial_models = <<>>
    /\ analysis_results = <<>>
    /\ fm = FinancialModel(ExampleParameters)
    /\ probe \in FlowProbes
    /\ op = "init"
    /\ prev = "init"
    /\ arg = "None"
    /\ ret = "None"
    /\ raised = "none"

NextFlows == EstimateIrr \/ CalculatePaybackPeriod

SpecFlows == InitFlows /\ [][NextFlows]_vars

(***************************************************************************)
(* _identify_key_risks on one site with its metrics and policy risk level  *)
(***************************************************************************)
\* Evaluated sites on both sides of the two score thresholds: infrastructure
\* scores 55, 65, 70, 80 and 90, energy scores 65, 70 and 77.5.
RiskSites ==
    { WithSubScores([SampleSite EXCEPT !.industrial_zone = z,
                                       !.utility_availability = u,
                                       !.transport_access = "Fair",
                                       !.power_price_eur_mwh = p]) :
        z \in {"Chemical", "Steel", "Harbor"}, u \in {"Excellent", "Fair"},
        p \in {50, 65, 75} }

\* Financial metrics as calculate_financial_metrics returns them, reduced to the
\* two entries read, and a mapping without them.
RiskMetrics ==
    { [payback_period_years |-> pb, irr_percent |-> irr] :
        pb \in {0, 5, 6, 20}, irr \in {RInt(0), RInt(14), RInt(15), RInt(100)} }
    \cup {<<>>}

RiskLevels == {"Low", "Medium", "High", "Very High", "absent"}

RiskProbes ==
    { [site |-> site, financial_metrics |-> metrics, risk_level |-> level] :
        site \in RiskSites, metrics \in RiskMetrics, level \in RiskLevels }

IdentifyKeyRisks ==
    /\ op' = "_identify_key_risks"
    /\ prev' = op
    /\ ret' = identify_key_risks(probe.site, probe.financial_metrics, probe.risk_level)
    /\ raised' = "none"
    /\ arg' = "None"
    /\ UNCHANGED <<engineVars, fm, probe>>

GenerateMitigationStrategies ==
    /\ op' = "_generate_mitigation_strategies"
    /\ prev' = op
    /\ ret' = generate_mitigation_strategies(probe.site, probe.financial_metrics,
                                             probe.risk_level)
    /\ raised' = "none"
    /\ arg' = "None"
    /\ UNCHANGED <<engineVars, fm, probe>>

InitRisks ==
    /\ sites = <<>>
    /\ weights = DefaultWeights
    /\ nAdded = 0
    /\ added = <<>>
    /\ financial_models = <<>>
    /\ analysis_results = <<>>
    /\ fm = FinancialModel(ExampleParameters)
    /\ probe \in RiskProbes
    /\ op = "init"
    /\ prev = "init"
    /\ arg = "None"
    /\ ret = "None"
    /\ raised = "none"

NextRisks == IdentifyKeyRisks \/ GenerateMitigationStrategies

SpecRisks == InitRisks /\ [][NextRisks]_vars

(***************************************************************************)
(* filter_sites on the engine's collection.  An argument left at its       *)
(* default None is <<>>, a supplied value v is <<v>>; the country list is  *)
(* the set of its elements.                                                *)
(***************************************************************************)
\* Python truth value of an optional number: None and 0 are false.
TruthyNumber(x) == x # <<>> /\ x[1] # 0

\* Python truth value of an optional list: None and the empty list are false.
TruthyList(x) == x # <<>> /\ x[1] # {}

FilterByVolume(s, x) == LET Keep(site) == site.co2_volume_tpy >= x[1] IN SelectSeq(s, Keep)

FilterByPrice(s, x) == LET Keep(site) == site.power_price_eur_mwh <= x[1] IN SelectSeq(s, Keep)

FilterByCountry(s, x) == LET Keep(site) == site.country \in x[1] IN SelectSeq(s, Keep)

FilterByScore(s, x) == LET Keep(site) == site.total_score >= x[1] IN SelectSeq(s, Keep)

\* Each filter is applied to the result of the one before it, and only when
\* its argument is true in the Python sense.
filter_sites(s, min_co2_volume, max_power_price, countries, min_score) ==
    LET f1 == IF TruthyNumber(min_co2_volume) THEN FilterByVolume(s, min_co2_volume) ELSE s
        f2 == IF TruthyNumber(max_power_price) THEN FilterByPrice(f1, max_power_price) ELSE f1
        f3 == IF TruthyList(countries) THEN FilterByCountry(f2, countries) ELSE f2
    IN  IF TruthyNumber(min_score) THEN FilterByScore(f3, min_score) ELSE f3

FilterArguments(v, p, c, sc) == [min_co2_volume |-> v, max_power_price |-> p, countries |-> c, min_score |-> sc]

\* The calls made: no filter, each filter alone with an ordinary value and with
\* its boundary value (a bound of 0, an empty country list), and two filters
\* together.  min_score is in 1/4000 point like total_score.
FilterChoices ==
    { FilterArguments(<<>>, <<>>, <<>>, <<>>),
      FilterArguments(<<1000>>, <<>>, <<>>, <<>>),
      FilterArguments(<<0>>, <<>>, <<>>, <<>>),
      FilterArguments(<<>>, <<140>>, <<>>, <<>>),
      FilterArguments(<<>>, <<0>>, <<>>, <<>>),
      FilterArguments(<<>>, <<>>, <<{"DE", "CH"}>>, <<>>),
      FilterArguments(<<>>, <<>>, <<{}>>, <<>>),
      FilterArguments(<<>>, <<>>, <<>>, <<Pts(70) * 100>>),
      FilterArguments(<<1000>>, <<>>, <<{"NL"}>>, <<>>) }

FilterSites ==
    \E a \in FilterChoices :
        /\ ret' = filter_sites(sites, a.min_co2_volume, a.max_power_price, a.countries, a.min_score)
        /\ raised' = "none"
        /\ op' = "filter_sites"
        /\ prev' = op
        /\ arg' = a
        /\ UNCHANGED <<engineVars, fm, probe>>

NextFilter == AddSite \/ EvaluateSites \/ FilterSites

SpecFilter == Init /\ [][NextFilter]_vars

(***************************************************************************)
(* Properties                                                              *)
(***************************************************************************)
\* evaluate_sites has just run to its end, called directly or from line 217 of
\* run_comprehensive_analysis (whose later failure leaves the collection as
\* evaluate_sites left it).
EvaluationCompleted ==
    \/ op = "evaluate_sites" /\ raised = "none"
    \/ op = "run_comprehensive_analysis" /\ raised \notin {"KeyError", "IndexError"}

CompleteWeights(w) == Dimensions \subseteq DOMAIN w

\* The preconditions of C1 on the model's parameters.
C1_Preconditions ==
    /\ fm.project_params.construction_period_years >= 1
    /\ fm.project_params.co2_input_tpy.num > 0
    /\ fm.project_params.co_output_tpy.num > 0

\* C1: on a fresh FinancialModel with construction_period_years >= 1,
\* co2_input_tpy > 0 and co_output_tpy > 0, the calculate_opex that follows a
\* calculate_capex does not fail with the 'capex must be calculated first'
\* ValueError (the first step of the stage sequence running to completion).
C1_OpexRunsAfterCapex ==
    ( /\ prev = "calculate_capex"
      /\ op = "calculate_opex"
      /\ C1_Preconditions
      /\ fm.cash_flows = <<>>
      /\ fm.financial_metrics = <<>> )
    => raised = "none"

\* C2: run_comprehensive_analysis on k >= 1 sites (with a complete weight
\* mapping) returns a report with min(5, k) bundles ranked 1..min(5, k), each
\* with the scores of its site, and financial_models then holds a model for
\* every analysed site_id.
C2_ReportHasTopSites ==
    ( /\ op = "run_comprehensive_analysis"
      /\ Len(sites) >= 1
      /\ CompleteWeights(weights) )
    => /\ raised = "none"
       /\ Len(ret.top_sites) = Min(5, Len(sites))
       /\ \A i \in 1..Len(ret.top_sites) :
            /\ ret.top_sites[i].ranking = i
            /\ ret.top_sites[i].screening_scores.total_score = sites[i].total_score
            /\ sites[i].site_id \in DOMAIN financial_models

ScoreFunctions ==
    {"calculate_co2_score", "calculate_energy_score", "calculate_policy_score",
     "calculate_infrastructure_score", "calculate_financial_score"}

\* C3: for every site, attribute values outside their expected ranges included,
\* each of the five sub-score functions returns a value in [0, 100].
C3_SubScoreBounds ==
    op \in ScoreFunctions => (0 <= ret /\ ret <= Pts(100))

\* C3 witnesses: a sub-score whose components sum below 0 and one whose
\* components sum above 100 have been returned.
C3_Witness ==
    \/ /\ op = "calculate_co2_score"
       /\ probe.co2_concentration < 20
       /\ probe.co2_volume_tpy < 0
       /\ ret = 0
    \/ /\ op = "calculate_energy_score"
       /\ probe.renewable_energy_share > 100
       /\ probe.power_price_eur_mwh <= 50
       /\ ret = Pts(100)

\* C4: after evaluate_sites, for every site and any weight vector with the five
\* dimensions, total_score is the weighted sum of the sub-scores stored on the
\* same site record.
C4_WeightedSum ==
    (EvaluationCompleted /\ CompleteWeights(weights)) =>
        \A i \in 1..Len(sites) :
            sites[i].total_score =
                sites[i].co2_availability_score * weights["co2_availability"]
                + sites[i].energy_score * weights["energy"]
                + sites[i].policy_score * weights["policy"]
                + sites[i].infrastructure_score * weights["infrastructure"]
                + sites[i].financial_score * weights["financial"]

C4_Witness ==
    /\ op = "evaluate_sites"
    /\ raised = "none"
    /\ weights = ExampleWeights
    /\ Len(sites) >= 2
    /\ \E i \in 1..Len(sites) :
        /\ sites[i].total_score > 0
        /\ sites[i].energy_score # sites[i].financial_score

\* C5: in the sequence evaluate_sites returns, which is the engine's collection
\* afterwards, total_score never increases from one position to the next.
C5_RankingMonotone ==
    /\ EvaluationCompleted =>
        \A i, j \in 1..Len(sites) :
            i < j => sites[i].total_score >= sites[j].total_score
    /\ (op = "evaluate_sites" /\ raised = "none") => ret = sites

\* C5 witness: an evaluation has moved a later-added site in front of an
\* earlier-added one with a smaller total.
C5_Witness ==
    /\ op = "evaluate_sites"
    /\ raised = "none"
    /\ Len(sites) >= 3
    /\ \E i \in 1..(Len(sites) - 1) :
        /\ sites[i].oid > sites[i + 1].oid
        /\ sites[i].total_score > sites[i + 1].total_score

\* The raw attributes of a stored site are those of the mapping it was added with.
SameAttributes(site, site_data) ==
    \A f \in SiteFields \ {"co2_availability_score", "energy_score", "policy_score",
                           "infrastructure_score", "financial_score", "total_score",
                           "ranking"} :
        site[f] = site_data[f]

\* C6: after evaluate_sites on a non-empty collection, the site at 0-based
\* position i has ranking i+1 (the rankings are exactly 1..k), and the collection
\* holds exactly the successfully added sites, none lost or duplicated.
C6_RankingsAndMembership ==
    (EvaluationCompleted /\ Len(sites) >= 1) =>
        /\ \A i \in 1..Len(sites) : sites[i].ranking = i
        /\ Len(sites) = Len(added)
        /\ \A n \in 1..Len(added) :
            \E i \in 1..Len(sites) :
                /\ sites[i].oid = n
                /\ SameAttributes(sites[i], added[n])

\* C6 witness: three sites, reordered by the sort, after an add_site that was
\* refused in between.
C6_Witness ==
    /\ op = "evaluate_sites"
    /\ raised = "none"
    /\ Len(sites) = 3
    /\ sites[1].oid # 1
    /\ sites[3].ranking = 3

\* C7: two sites of equal total_score are in insertion order (the order of the
\* add_site calls) in the sequence evaluate_sites produces, also when
\* evaluate_sites is repeated on the already-sorted collection.
C7_TiesInInsertionOrder ==
    (op = "evaluate_sites" /\ raised = "none") =>
        \A i, j \in 1..Len(sites) :
            (i < j /\ sites[i].total_score = sites[j].total_score)
                => sites[i].oid < sites[j].oid

\* The scores an evaluation stores are a function of the attributes the site was
\* added with and of the weights alone.
ScoresDeterminedByInputs ==
    EvaluationCompleted =>
        \A i \in 1..Len(sites) :
            /\ sites[i].co2_availability_score = calculate_co2_score(added[sites[i].oid])
            /\ sites[i].energy_score = calculate_energy_score(added[sites[i].oid])
            /\ sites[i].policy_score = calculate_policy_score(added[sites[i].oid])
            /\ sites[i].infrastructure_score
                   = calculate_infrastructure_score(added[sites[i].oid])
            /\ sites[i].financial_score = calculate_financial_score(added[sites[i].oid])
            /\ sites[i].total_score
                   = WeightedTotal(WithSubScores(added[sites[i].oid]), weights)

C9_TopSitesAreEvaluated ==
    ( /\ op = "get_top_sites"
      /\ Len(sites) >= 1
      /\ CompleteWeights(weights) )
    => /\ raised = "none"
       /\ Len(ret) = Min(arg, Len(sites))
       /\ \A i \in 1..Len(ret) :
            /\ ret[i].co2_availability_score = calculate_co2_score(ret[i])
            /\ ret[i].energy_score = calculate_energy_score(ret[i])
            /\ ret[i].policy_score = calculate_policy_score(ret[i])
            /\ ret[i].infrastructure_score = calculate_infrastructure_score(ret[i])
            /\ ret[i].financial_score = calculate_financial_score(ret[i])
            /\ ret[i].total_score = WeightedTotal(ret[i], weights)
       /\ \A i, j \in 1..Len(ret) : i < j => ret[i].total_score >= ret[j].total_score
       /\ \A i \in 1..Len(ret), j \in 1..Len(sites) :
            (\A k \in 1..Len(ret) : ret[k].oid # sites[j].oid)
                => ret[i].total_score >= WeightedTotal(WithSubScores(sites[j]), weights)

\* C10: add_site with a mapping that lacks a required field or carries an
\* unknown one fails with an error that reaches the caller.
C10_MalformedSiteRaises ==
    (op = "add_site" /\ ~SiteMetricsAccepts(arg)) => raised # "none"

\* C11: when the weight mapping lacks one of the five dimensions, evaluate_sites
\* and run_comprehensive_analysis fail before any scoring runs: the call ends
\* with an error and no site's sub-scores, total_score, ranking or position has
\* been modified.
C11_MissingWeightFailsBeforeScoring ==
    [][ ( /\ op' \in {"evaluate_sites", "run_comprehensive_analysis"}
          /\ ~CompleteWeights(weights') )
            => (raised' # "none" /\ sites' = sites) ]_vars

\* C12: in run_comprehensive_analysis a failure while analysing one top site
\* does not abort the call: once the screening has succeeded the call returns a
\* report, which is stored as analysis_results and accounts for every top site.
C12_SiteFailureIsIsolated ==
    ( /\ op = "run_comprehensive_analysis"
      /\ raised \notin {"KeyError", "IndexError"} )
    => /\ raised = "none"
       /\ analysis_results = <<ret>>
       /\ \A i \in 1..Min(5, Len(sites)) :
            \E b \in 1..Len(ret.top_sites) : ret.top_sites[b].ranking = sites[i].ranking

\* The exception a read of self.sites[0] ends with on an empty list (line 232):
\* an incidental error of the log statement, not one raised for the empty input.
IncidentalErrors == {"IndexError"}

\* C13: evaluate_sites, get_top_sites and run_comprehensive_analysis on an empty
\* site collection fail with an error dedicated to the empty input.
C13_EmptyCollectionError ==
    ( /\ op \in {"evaluate_sites", "get_top_sites", "run_comprehensive_analysis"}
      /\ sites = <<>> )
    => (raised # "none" /\ raised \notin IncidentalErrors)

\* C14: for construction_period_years >= 1, ramp_up_period_years >= 0 and
\* project_lifetime_years >= 1 the schedule generate_cash_flows returns has
\* exactly project_lifetime_years entries.
C14_ScheduleLength ==
    ( /\ op = "generate_cash_flows"
      /\ raised = "none"
      /\ fm.project_params.construction_period_years >= 1
      /\ fm.project_params.ramp_up_period_years >= 0
      /\ fm.project_params.project_lifetime_years >= 1 )
    => Len(ret) = fm.project_params.project_lifetime_years

\* The net cash flows of the first i entries of a schedule.
NetCashFlowsUpTo(cash_flows, i) == [j \in 1..i |-> cash_flows[j].net_cash_flow]

\* C15: in every schedule generate_cash_flows produces, entry i (0-based) has
\* year = i and its cumulative_cash_flow is the sum of net_cash_flow[0..i],
\* across the construction, ramp-up and operation phases.
C15_YearsAndRunningSum ==
    /\ \A i \in 1..Len(fm.cash_flows) :
        /\ fm.cash_flows[i].year = i - 1
        /\ fm.cash_flows[i].cumulative_cash_flow
               = RSum(NetCashFlowsUpTo(fm.cash_flows, i))
    /\ (op = "generate_cash_flows" /\ raised = "none") => ret = fm.cash_flows

\* C15 witness: a schedule with two construction years, a ramp-up year and an
\* operation year, with costs and revenue in the operating years.
C15_Witness ==
    /\ op = "generate_cash_flows"
    /\ raised = "none"
    /\ Len(ret) = 4
    /\ ret[2].period = <<"Construction", 2>>
    /\ ret[3].period = <<"Ramp-up", 1>>
    /\ ret[4].period = <<"Operation", 1>>
    /\ ret[2].net_cash_flow.num < 0
    /\ ret[3].net_cash_flow.num > 0
    /\ ret[4].opex.num < 0

\* C17: npv_eur is the sum over the schedule entries i of
\* net_cash_flow[i] / (1 + discount_rate)^i, year 0 undiscounted; at a discount
\* rate of 0 it is the plain sum of the net cash flows, which is the last
\* entry's cumulative_cash_flow.
C17_NetPresentValue ==
    (op = "calculate_financial_metrics" /\ raised = "none") =>
        LET n == Len(fm.cash_flows)
            rate == fm.project_params.discount_rate
        IN  /\ ret.npv_eur =
                RSum([i \in 1..n |->
                        RDiv(fm.cash_flows[i].net_cash_flow,
                             RPow(RAdd(RInt(1), rate), i - 1))])
            /\ RIsZero(rate) =>
                /\ ret.npv_eur = RSum(NetCashFlowsUpTo(fm.cash_flows, n))
                /\ ret.npv_eur = fm.cash_flows[n].cumulative_cash_flow

\* C17 witness: metrics of a four-year schedule at a discount rate of 10 %,
\* where the npv differs from the plain sum.
C17_Witness ==
    /\ op = "calculate_financial_metrics"
    /\ raised = "none"
    /\ Len(fm.cash_flows) = 4
    /\ ~RIsZero(fm.project_params.discount_rate)
    /\ fm.cash_flows[4].net_cash_flow.num > 0
    /\ ret.npv_eur # fm.cash_flows[4].cumulative_cash_flow

\* C19: calculate_financial_metrics never ends in an unhandled division by
\* zero, also with co_output_tpy = 0 or co2_input_tpy = 0.
C19_NoDivisionByZero ==
    op = "calculate_financial_metrics" => raised # "ZeroDivisionError"

\* C20: calculate_financial_metrics called while cash_flows is still empty fails
\* with an error and does not build the schedule itself.
C20_MetricsNeedGeneratedCashFlows ==
    [][ (op' = "calculate_financial_metrics" /\ fm.cash_flows = <<>>)
            => (raised' # "none" /\ fm'.cash_flows = <<>>) ]_vars

\* C16: payback_period_years is the smallest 0-based index i with
\* cumulative_cash_flow[i] >= 0 and the length of the list when there is none:
\* 0 when the first cumulative is >= 0, the length when all are negative.
C16_PaybackPeriod ==
    op = "_calculate_payback_period" =>
        /\ ret \in 0..Len(probe)
        /\ \A i \in 1..Len(probe) : (i - 1 < ret) => probe[i].num < 0
        /\ (ret < Len(probe)) => probe[ret + 1].num >= 0

\* C16 witness: a list that is negative for two years and then reaches 0 or
\* more, so that the payback period is neither 0 nor the length.
C16_Witness ==
    /\ op = "_calculate_payback_period"
    /\ Len(probe) = 4
    /\ probe[1].num < 0
    /\ probe[2].num < 0
    /\ probe[3].num >= 0
    /\ ret = 2

\* C18: irr_percent is an internal rate of return: at the rate r = irr / 100 the
\* sum over i of net_cash_flow[i] / (1 + r)^i is 0 (10 % for -100, +110).
C18_IrrZeroesNpv ==
    ( /\ op = "_estimate_irr"
      /\ Len(probe) >= 2
      /\ \E i \in 1..Len(probe) : probe[i].num < 0
      /\ \E i \in 1..Len(probe) : probe[i].num > 0 )
    => RIsZero(RSum([i \in 1..Len(probe) |->
                        RDiv(probe[i],
                             RPow(RAdd(RInt(1), RDiv(ret, RInt(100))), i - 1))]))

\* C21: calculate_revenue is rejected with an error unless calculate_opex has
\* already run on the same model; a model with only its capex stage computed
\* (here: calculate_revenue is the first call on it) is not sufficient.
C21_RevenueNeedsOpex ==
    (op = "calculate_revenue" /\ prev = "init") => raised # "none"

\* C22: calculate_opex on a model whose capex stage has not been computed (no
\* cost structure) fails with the precondition error and leaves cost_structure,
\* cash_flows and financial_metrics unchanged.
C22_OpexNeedsCapex ==
    [][ (op' = "calculate_opex" /\ fm.cost_structure = <<>>)
            => (raised' = "ValueError" /\ ret' = "None" /\ fm' = fm) ]_vars

\* C22 witness: calculate_opex has been refused on a model without a cost
\* structure.
C22_Witness ==
    /\ op = "calculate_opex"
    /\ raised = "ValueError"
    /\ fm.cost_structure = <<>>
    /\ fm.cash_flows = <<>>
    /\ fm.financial_metrics = <<>>

\* C23: calculate_capex with equipment_cost < 0 fails with an error and returns
\* no cost structure.
C23_NegativeEquipmentCostRejected ==
    (op = "calculate_capex" /\ arg.num < 0) => (raised # "none" /\ ret = "None")

\* The five flags of _identify_key_risks in the order of the source.
KeyRiskFlags ==
    <<"Long payback period may affect financing",
      "Low IRR may not meet investor requirements",
      "High policy uncertainty in target region",
      "Infrastructure limitations may increase costs",
      "Energy costs and availability concerns">>

\* Whether the condition of the i-th flag holds for the probed inputs (a metric
\* the mapping lacks counts as 0).
KeyRiskCondition(i) ==
    CASE i = 1 -> /\ "payback_period_years" \in DOMAIN probe.financial_metrics
                  /\ probe.financial_metrics.payback_period_years > 5
      [] i = 2 -> \/ "irr_percent" \notin DOMAIN probe.financial_metrics
                  \/ probe.financial_metrics.irr_percent.num
                        < 15 * probe.financial_metrics.irr_percent.den
      [] i = 3 -> probe.risk_level \in {"High", "Very High"}
      [] i = 4 -> probe.site.infrastructure_score < Pts(70)
      [] i = 5 -> probe.site.energy_score < Pts(70)

\* C24: _identify_key_risks returns exactly the flags whose condition holds
\* (payback > 5, IRR < 15, policy risk level High or Very High, infrastructure
\* score < 70, energy score < 70), each once and in the fixed order.
C24_KeyRiskFlags ==
    op = "_identify_key_risks" =>
        /\ \A i \in 1..5 :
            KeyRiskCondition(i) <=> (\E k \in 1..Len(ret) : ret[k] = KeyRiskFlags[i])
        /\ \A k, l \in 1..Len(ret) :
            k < l => \E i, j \in 1..5 :
                        i < j /\ ret[k] = KeyRiskFlags[i] /\ ret[l] = KeyRiskFlags[j]

\* C24 witness: a payback of exactly 5 years and an IRR of exactly 15 % raise no
\* financial flag while the policy and energy flags are raised.
C24_Witness ==
    /\ op = "_identify_key_risks"
    /\ probe.financial_metrics # <<>>
    /\ probe.financial_metrics.payback_period_years = 5
    /\ probe.financial_metrics.irr_percent = RInt(15)
    /\ probe.site.infrastructure_score = Pts(70)
    /\ ret = <<KeyRiskFlags[3], KeyRiskFlags[5]>>

\* C25: in calculate_co2_score the concentration component is clamped to
\* [0, 30] before summing: the score is min(50, co2_volume_tpy / 1000 * 50)
\* + clamp((co2_concentration - 20) / 80 * 30, 0, 30) + 20 (for a volume >= 0,
\* where this sum needs no further clamp).
C25_ConcentrationClamped ==
    (op = "calculate_co2_score" /\ probe.co2_volume_tpy >= 0) =>
        ret = Min(Pts(50), probe.co2_volume_tpy * 2)
              + Min(Pts(30), Max(0, (probe.co2_concentration - 20) * 15))
              + Pts(20)

\* C26: in calculate_infrastructure_score a value that is not a key of its
\* lookup table scores the lowest tier of that table (15 for zone, 10 for
\* utility, 10 for transport), a known value its table entry, and the result is
\* the sum of the three.
C26_UnknownCategoryLowestTier ==
    op = "calculate_infrastructure_score" =>
        ret = Pts(Lookup(zone_scores, probe.industrial_zone, 15))
              + Pts(Lookup(utility_scores, probe.utility_availability, 10))
              + Pts(Lookup(transport_scores, probe.transport_access, 10))

\* A linear ramp worth `top` points at x <= lo and 0 points at x >= hi, and the
\* rising one worth 0 at x <= lo and `top` at x >= hi.
RampDown(x, lo, hi, top) ==
    IF x <= lo THEN Pts(top)
    ELSE IF x >= hi THEN 0
    ELSE (Pts(top) * (hi - x)) \div (hi - lo)
RampUp(x, lo, hi, top) ==
    IF x <= lo THEN 0
    ELSE IF x >= hi THEN Pts(top)
    ELSE (Pts(top) * (x - lo)) \div (hi - lo)

InRange(x) == 0 <= x /\ x <= 100

\* C27: every linear-ramp component is clamped at its breakpoints, linear in
\* between and monotone: power price 50 points at <= 50 and 0 at >= 150, ETS 0
\* at <= 40 and 40 at >= 80, intensity 30 at <= 200 and 0 at >= 800, labor 40 at
\* <= 25 and 0 at >= 50, land 30 at <= 100 and 0 at >= 500 (the other components
\* of the sub-score taken at in-range values, where the total is not clamped).
C27_LinearRamps ==
    /\ ( /\ op = "calculate_energy_score"
         /\ InRange(probe.renewable_energy_share)
         /\ InRange(probe.power_availability) ) =>
            /\ ret = RampDown(probe.power_price_eur_mwh, 50, 150, 50)
                     + probe.renewable_energy_share * 12 + probe.power_availability * 8
            /\ \A q \in EnergyProbes :
                ( /\ q.renewable_energy_share = probe.renewable_energy_share
                  /\ q.power_availability = probe.power_availability
                  /\ q.power_price_eur_mwh >= probe.power_price_eur_mwh )
                => calculate_energy_score(q) <= ret
    /\ op = "calculate_policy_score" =>
            /\ ret = RampUp(probe.eu_ets_price, 40, 80, 40)
                     + (IF probe.cbam_applicable THEN Pts(30) ELSE 0)
                     + RampDown(probe.emissions_intensity, 200, 800, 30)
            /\ \A q \in PolicyProbes :
                ( /\ q.cbam_applicable = probe.cbam_applicable
                  /\ q.eu_ets_price >= probe.eu_ets_price
                  /\ q.emissions_intensity <= probe.emissions_intensity )
                => calculate_policy_score(q) >= ret
    /\ (op = "calculate_financial_score" /\ InRange(probe.tax_incentives)) =>
            /\ ret = RampDown(probe.labor_costs, 25, 50, 40)
                     + RampDown(probe.land_costs, 100, 500, 30)
                     + Min(Pts(30), probe.tax_incentives * 12)
            /\ \A q \in FinancialProbes :
                ( /\ q.tax_incentives = probe.tax_incentives
                  /\ q.labor_costs >= probe.labor_costs
                  /\ q.land_costs >= probe.land_costs )
                => calculate_financial_score(q) <= ret

\* C27 witness: the energy score of a site with a power price of 0, below the
\* lower breakpoint, where the price component is exactly 50 points.
C27_Witness ==
    /\ op = "calculate_energy_score"
    /\ probe.power_price_eur_mwh = 0
    /\ probe.renewable_energy_share = 25
    /\ probe.power_availability = 100
    /\ ret = Pts(50) + 300 + 800

\* What the i-th entry (1-based) of a schedule must hold for a cost structure cs
\* and c construction years followed by r ramp-up years: its phase label, its
\* capex and opex (outflows, negative) and its revenue.
PhaseEntryOk(entry, cs, c, r, i) ==
    /\ i <= c =>
        /\ entry.period = <<"Construction", i>>
        /\ entry.capex = RNeg(RDiv(cs.total_capex, RInt(c)))
        /\ RIsZero(entry.opex)
        /\ RIsZero(entry.revenue)
    /\ (c < i /\ i <= c + r) =>
        /\ entry.period = <<"Ramp-up", i - c>>
        /\ RIsZero(entry.capex)
        /\ entry.revenue = RMul(cs.total_revenue, Rat(1, 2))
        /\ entry.opex = RNeg(RMul(cs.total_opex, Rat(1, 2)))
    /\ c + r < i =>
        /\ entry.period = <<"Operation", i - c - r>>
        /\ RIsZero(entry.capex)
        /\ entry.revenue = cs.total_revenue
        /\ entry.opex = RNeg(cs.total_opex)
    /\ entry.net_cash_flow = RAdd(RAdd(entry.revenue, entry.opex), entry.capex)

\* C28: for construction + ramp_up <= lifetime generate_cash_flows emits
\* construction entries (capex outflow total_capex / construction years, no opex,
\* no revenue), then ramp-up entries at half of total_revenue and total_opex,
\* then lifetime - construction - ramp_up entries at the full values, and in
\* every entry net_cash_flow = revenue - opex outflow - capex outflow.
C28_PhasesInOrder ==
    ( /\ op = "generate_cash_flows"
      /\ raised = "none"
      /\ fm.project_params.construction_period_years
            + fm.project_params.ramp_up_period_years
                <= fm.project_params.project_lifetime_years )
    => /\ Len(ret) = fm.project_params.project_lifetime_years
       /\ \A i \in 1..Len(ret) :
            PhaseEntryOk(ret[i], fm.cost_structure[1],
                         fm.project_params.construction_period_years,
                         fm.project_params.ramp_up_period_years, i)

\* C28 witness: a four-year schedule of two construction years, one ramp-up
\* year at half the revenue and half the opex, and one year of full operation.
C28_Witness ==
    /\ op = "generate_cash_flows"
    /\ raised = "none"
    /\ fm.project_params.construction_period_years = 2
    /\ fm.project_params.ramp_up_period_years = 1
    /\ Len(ret) = 4
    /\ fm.cost_structure[1].total_capex.num > 0
    /\ fm.cost_structure[1].total_revenue.num > 0
    /\ fm.cost_structure[1].total_opex.num > 0
    /\ ret[3].revenue = RMul(ret[4].revenue, Rat(1, 2))
    /\ ret[3].opex = RMul(ret[4].opex, Rat(1, 2))

\* C30: the metrics of a calculate_financial_metrics call are computed from a
\* schedule built with the model's current cost structure, also when
\* calculate_opex or calculate_revenue ran again after generate_cash_flows: the
\* schedule behind npv, irr and payback is the one the current total_opex and
\* total_revenue give.
C30_MetricsUseCurrentCostStructure ==
    (op = "calculate_financial_metrics" /\ raised = "none") =>
        ret = calculate_financial_metrics([fm EXCEPT !.cash_flows = <<>>]).ret

\* The sites of s that satisfy every supplied predicate of the call a, in the
\* order of s; an argument is supplied when it is not None.
SatisfyingSupplied(s, a) ==
    LET Keep(site) ==
            /\ a.min_co2_volume # <<>> => site.co2_volume_tpy >= a.min_co2_volume[1]
            /\ a.max_power_price # <<>> => site.power_price_eur_mwh <= a.max_power_price[1]
            /\ a.countries # <<>> => site.country \in a.countries[1]
            /\ a.min_score # <<>> => site.total_score >= a.min_score[1]
    IN  SelectSeq(s, Keep)

\* C29: filter_sites returns exactly the sites of the collection that satisfy
\* every supplied predicate, in collection order, and leaves the collection,
\* the scores and the rankings as they were; a supplied empty country list or
\* a supplied bound of 0 is a predicate like any other.
C29_FilterReturnsSatisfyingSites ==
    [][op' = "filter_sites" => (ret' = SatisfyingSupplied(sites, arg') /\ sites' = sites)]_vars

====
